---- MODULE Spec2Model ----
(***************************************************************************)
(* Model of tools/bumper/git_fakes.go: the fixture builder that scripts a  *)
(* local repository (newLocalGitRepo / initializeRepo) and the fake GitHub *)
(* client (mockGithubApi) that answers ListMatchingRefs, ListCommits and   *)
(* GetRef from the output of `git log`.                                    *)
(*                                                                         *)
(* Strings are TLA+ strings, used as sequences of characters: substring    *)
(* search and first-occurrence replacement are computed character by       *)
(* character, as strings.Contains and strings.Replace do.                  *)
(***************************************************************************)
EXTENDS Integers, Sequences, FiniteSets, TLC

VARIABLES
    pc,            \* position of the caller: PlainInit, Worktree, run, done, aborted, adopted
    ip,            \* index of the running statement of initializeRepo
    phase,         \* position inside the running statement
    repoInit,      \* repoDir holds a git repository
    commits,       \* commit objects in creation order
    refs,          \* full ref name -> [kind, target]
    head,          \* branch that the symbolic HEAD names
    clock,         \* wall clock, in seconds
    worktree,      \* files written to repoDir
    staged,        \* files added to the index
    commitHash,    \* createCommit's return value, as held by its caller
    tagCommitMap,  \* the caller's map, filled by the builder
    mapArg,        \* the map as the caller passed it in
    swallowed,     \* statements whose Checkout error was discarded
    faults,        \* Checkout faults injected so far
    gitInstalled,  \* exec.Command("git") can run
    resp           \* what the last query returned

vars == <<pc, ip, phase, repoInit, commits, refs, head, clock, worktree, staged,
          commitHash, tagCommitMap, mapArg, swallowed, faults, gitInstalled, resp>>

repoVars == <<repoInit, commits, refs, head, clock, worktree, staged>>
buildVars == <<pc, ip, phase, commitHash, tagCommitMap, mapArg, swallowed, faults>>

----------------------------------------------------------------------------
(* Bounds *)

\* commits of a repository the fake client is pointed at without building it
MaxCommits == 2
\* second boundaries the wall clock crosses while the fixture is built
MaxTicks == 1
\* Checkout calls that fail for a reason other than a missing branch
MaxFaults == 1

----------------------------------------------------------------------------
(* Strings *)

\* strings.Contains
Contains(s, substr) ==
    \E i \in 0..(Len(s) - Len(substr)) : SubSeq(s, i + 1, i + Len(substr)) = substr

\* strings.Index, 1-based; 0 when substr does not occur
Index(s, substr) ==
    IF Contains(s, substr)
    THEN CHOOSE i \in 1..(Len(s) - Len(substr) + 1) :
            /\ SubSeq(s, i, i + Len(substr) - 1) = substr
            /\ \A j \in 1..(i - 1) : SubSeq(s, j, j + Len(substr) - 1) # substr
    ELSE 0

\* strings.Replace(s, old, new, 1)
ReplaceFirst(s, old, new) ==
    LET i == Index(s, old)
    IN IF i = 0 THEN s
       ELSE SubSeq(s, 1, i - 1) \o new \o SubSeq(s, i + Len(old), Len(s))

RECURSIVE Repeat(_, _)
Repeat(c, n) == IF n = 0 THEN "" ELSE c \o Repeat(c, n - 1)

RECURSIVE JoinWith(_, _)
JoinWith(parts, sep) ==
    IF parts = <<>> THEN ""
    ELSE IF Len(parts) = 1 THEN parts[1]
    ELSE parts[1] \o sep \o JoinWith(Tail(parts), sep)

Range(f) == {f[i] : i \in DOMAIN f}

\* plumbing.NewBranchReferenceName
NewBranchReferenceName(name) == "refs/heads/" \o name
\* the ref that CreateTag writes
NewTagReferenceName(name) == "refs/tags/" \o name

\* length of a commit hash in hex, %H
HashHexLen == 40
\* argument of randstr.Hex, which hex-encodes that many random bytes
RandBytes == 40

HexDigits == <<"1", "2", "3", "4", "5", "6", "7", "8", "9">>
\* plumbing.Hash.String() of the n-th object written: distinct objects have
\* distinct hashes
HashString(n) == Repeat(HexDigits[n], HashHexLen)
\* randstr.Hex(n): 2n hex characters
RandHex(n, d) == Repeat(d, 2 * n)
RandDigits == {"1", "f"}

----------------------------------------------------------------------------
(* The repository as `git log` reads it *)

\* every ref name the model's repositories use, in git's ref order
RefNamesAsc ==
    << "refs/heads/master", "refs/heads/release-v1.0.0",
       "refs/tags/v0.0.1", "refs/tags/v0.0.2", "refs/tags/v1.0.0", "refs/tags/v1.0.1" >>

Reverse(s) == [i \in 1..Len(s) |-> s[Len(s) + 1 - i]]

IsTagRef(name) == SubSeq(name, 1, Len("refs/tags/")) = "refs/tags/"

\* %D under --decorate=full: "HEAD -> <branch>" first, then the other refs at
\* the commit in descending ref order, tags marked "tag: ", joined by ", "
Decoration(c) ==
    LET atHead == head \in DOMAIN refs /\ refs[head].target = c
        here(name) == name \in DOMAIN refs /\ refs[name].target = c /\ name # head
        others == SelectSeq(Reverse(RefNamesAsc), here)
        shown == [i \in 1..Len(others) |->
                     IF IsTagRef(others[i]) THEN "tag: " \o others[i] ELSE others[i]]
    IN JoinWith((IF atHead THEN <<"HEAD -> " \o head>> ELSE <<>>) \o shown, ", ")

\* commit_list_insert_by_date: after every queued commit that is not older
RECURSIVE InsertByDate(_, _)
InsertByDate(queue, c) ==
    IF queue = <<>> THEN <<c>>
    ELSE IF commits[Head(queue)].when < commits[c].when THEN <<c>> \o queue
    ELSE <<Head(queue)>> \o InsertByDate(Tail(queue), c)

\* the start commits, each once, sorted by date (newest first, ties keep
\* their order)
RECURSIVE StartQueue(_, _)
StartQueue(tips, queue) ==
    IF tips = <<>> THEN queue
    ELSE IF Head(tips) \in Range(queue) THEN StartQueue(Tail(tips), queue)
    ELSE StartQueue(Tail(tips), InsertByDate(queue, Head(tips)))

\* the revision walk of `git log --first-parent`
RECURSIVE Walk(_, _, _)
Walk(queue, seen, out) ==
    IF queue = <<>> THEN out
    ELSE LET c == Head(queue)
             p == commits[c].parent
         IN IF p # 0 /\ p \notin seen
            THEN Walk(InsertByDate(Tail(queue), p), seen \cup {p}, Append(out, c))
            ELSE Walk(Tail(queue), seen, Append(out, c))

\* --all: every ref in ref order, then HEAD
AllTips ==
    LET named == SelectSeq(RefNamesAsc, LAMBDA name : name \in DOMAIN refs)
    IN [i \in 1..Len(named) |-> refs[named[i]].target]
         \o (IF head \in DOMAIN refs THEN <<refs[head].target>> ELSE <<>>)

\* the commit a revision argument names, 0 when git cannot resolve it
Resolve(rev) ==
    IF NewTagReferenceName(rev) \in DOMAIN refs THEN refs[NewTagReferenceName(rev)].target
    ELSE IF NewBranchReferenceName(rev) \in DOMAIN refs
         THEN refs[NewBranchReferenceName(rev)].target
    ELSE IF \E c \in DOMAIN commits : commits[c].hash = rev
         THEN CHOOSE c \in DOMAIN commits : commits[c].hash = rev
    ELSE 0

LogEntry(c) ==
    [commit |-> commits[c].hash, refs |-> Decoration(c), subject |-> commits[c].subject]

\* what `git -C repo log ... GITFORMAT <rev | --all>` does: status of the
\* process and its standard output, one GITFORMAT record per commit, each
\* ended by the "," of the format
GitLog(rev) ==
    LET listed(tips) ==
            LET order == Walk(StartQueue(tips, <<>>), Range(tips), <<>>)
            IN [i \in 1..Len(order) |-> LogEntry(order[i])]
        ok(tips) == [status |-> "ok", entries |-> listed(tips),
                     trailer |-> IF tips = <<>> THEN "" ELSE ","]
        failed == [status |-> "fail", entries |-> <<>>, trailer |-> ""]
    IN IF ~gitInstalled \/ ~repoInit THEN failed
       ELSE IF rev = "" THEN ok(AllTips)
       ELSE IF Resolve(rev) = 0 THEN failed
       ELSE ok(<<Resolve(rev)>>)

----------------------------------------------------------------------------
(* The fake client: git_fakes.go lines 27-185 *)

\* the text is empty: len(logOut) = 0
IsEmptyText(text) == text.entries = <<>> /\ text.trailer = ""

\* logOut[:len(logOut)-1]
DropLastChar(text) == [entries |-> text.entries, trailer |-> ""]

\* gitCommand with the error of cmd.Output() dropped
gitCommandIgnoringError(run) ==
    IF IsEmptyText(run)
    THEN [outcome |-> "panic", logOut |-> [entries |-> <<>>, trailer |-> ""]]
    ELSE [outcome |-> "ok", logOut |-> DropLastChar(run)]

\* gitCommand: the error of cmd.Output() is returned; otherwise the last
\* character of the output is cut off, which panics on an empty output
gitCommand(run) ==
    IF run.status # "ok"
    THEN [outcome |-> "error", logOut |-> [entries |-> <<>>, trailer |-> ""]]
    ELSE IF IsEmptyText(run)
    THEN [outcome |-> "panic", logOut |-> [entries |-> <<>>, trailer |-> ""]]
    ELSE [outcome |-> "ok", logOut |-> DropLastChar(run)]

\* a string that can stand between the quotes of GITFORMAT
JsonSafe(s) == ~Contains(s, "\"") /\ ~Contains(s, "\\")

\* "[" + logOut + "]" is a JSON array of objects
JsonValid(text) ==
    /\ text.trailer = ""
    /\ \A i \in DOMAIN text.entries :
          /\ JsonSafe(text.entries[i].commit)
          /\ JsonSafe(text.entries[i].refs)
          /\ JsonSafe(text.entries[i].subject)

\* json.Unmarshal into []gitCommitMock: the fields commit and refs of every
\* object; on a syntax error the slice stays nil
Unmarshal(text) ==
    IF JsonValid(text)
    THEN [i \in 1..Len(text.entries) |->
             [Commit |-> text.entries[i].commit, Refs |-> text.entries[i].refs]]
    ELSE <<>>

\* gitLogJson that never passes the branch name on and always logs --all
gitLogJsonAllBranches(branchName) ==
    LET run == gitCommand(GitLog(""))
    IN IF run.outcome = "ok"
       THEN [outcome |-> "ok", list |-> Unmarshal(run.logOut)]
       ELSE [outcome |-> run.outcome, list |-> <<>>]

\* gitLogJson: the error of gitCommand is returned, the error of
\* json.Unmarshal is not looked at
gitLogJson(branchName) ==
    LET run == gitCommand(GitLog(branchName))
    IN IF run.outcome = "ok"
       THEN [outcome |-> "ok", list |-> Unmarshal(run.logOut)]
       ELSE [outcome |-> run.outcome, list |-> <<>>]

convertLogToRepositoryCommitList(gitCommitObjList) ==
    [i \in 1..Len(gitCommitObjList) |-> gitCommitObjList[i].Commit]

getNewMockReference(commitObj) ==
    LET noTag == ReplaceFirst(commitObj.Refs, "tag: ", "")
        noHead == ReplaceFirst(noTag, "HEAD -> ", "")
    IN [Ref |-> noHead, SHA |-> commitObj.Commit]

\* convertLogToReferenceList that stops at the first matching record
RECURSIVE convertLogToReferenceListFirstOnly(_, _)
convertLogToReferenceListFirstOnly(gitCommitObjList, refsFilter) ==
    IF gitCommitObjList = <<>> THEN <<>>
    ELSE IF Contains(Head(gitCommitObjList).Refs, refsFilter)
    THEN <<getNewMockReference(Head(gitCommitObjList))>>
    ELSE convertLogToReferenceListFirstOnly(Tail(gitCommitObjList), refsFilter)

RECURSIVE convertLogToReferenceList(_, _)
convertLogToReferenceList(gitCommitObjList, refsFilter) ==
    IF gitCommitObjList = <<>> THEN <<>>
    ELSE IF Contains(Head(gitCommitObjList).Refs, refsFilter)
    THEN <<getNewMockReference(Head(gitCommitObjList))>>
            \o convertLogToReferenceList(Tail(gitCommitObjList), refsFilter)
    ELSE convertLogToReferenceList(Tail(gitCommitObjList), refsFilter)

NoRef == [Ref |-> "", SHA |-> ""]

\* getRefFromCommitObjList that keeps looping and returns the last match
RECURSIVE getRefFromCommitObjListLast(_, _)
getRefFromCommitObjListLast(gitCommitObjList, refName) ==
    IF gitCommitObjList = <<>> THEN [found |-> FALSE, ref |-> NoRef]
    ELSE LET later == getRefFromCommitObjListLast(Tail(gitCommitObjList), refName)
         IN IF later.found THEN later
            ELSE IF Contains(Head(gitCommitObjList).Refs, refName)
            THEN [found |-> TRUE, ref |-> getNewMockReference(Head(gitCommitObjList))]
            ELSE later

RECURSIVE getRefFromCommitObjList(_, _)
getRefFromCommitObjList(gitCommitObjList, refName) ==
    IF gitCommitObjList = <<>> THEN [found |-> FALSE, ref |-> NoRef]
    ELSE IF Contains(Head(gitCommitObjList).Refs, refName)
    THEN [found |-> TRUE, ref |-> getNewMockReference(Head(gitCommitObjList))]
    ELSE getRefFromCommitObjList(Tail(gitCommitObjList), refName)

\* what a query hands back: kind is "ok", "error" (failed performing mock
\* git log), "notFound" (reference not found) or "panic"
Response(op, arg, kind, refList, commitList) ==
    [op |-> op, arg |-> arg, kind |-> kind, refs |-> refList, commits |-> commitList]

NoResponse == Response("none", "", "none", <<>>, <<>>)

ListMatchingRefsResult(ref) ==
    LET log == gitLogJson("")
    IN IF log.outcome # "ok"
       THEN Response("ListMatchingRefs", ref, log.outcome, <<>>, <<>>)
       ELSE Response("ListMatchingRefs", ref, "ok",
                     convertLogToReferenceList(log.list, ref), <<>>)

ListCommitsResult(sha) ==
    LET log == gitLogJson(sha)
    IN IF log.outcome # "ok"
       THEN Response("ListCommits", sha, log.outcome, <<>>, <<>>)
       ELSE Response("ListCommits", sha, "ok", <<>>,
                     convertLogToRepositoryCommitList(log.list))

GetRefResult(ref) ==
    LET log == gitLogJson("")
        got == getRefFromCommitObjList(log.list, ref)
    IN IF log.outcome # "ok"
       THEN Response("GetRef", ref, log.outcome, <<>>, <<>>)
       ELSE IF got.found THEN Response("GetRef", ref, "ok", <<got.ref>>, <<>>)
       ELSE Response("GetRef", ref, "notFound", <<>>, <<>>)

\* the ref filters and revisions the callers of the model pass
RefArgs ==
    { "v0.0.1", "v0.0.2", "v1.0.0", "v1.0.1", "dummy_tag_latest_master",
      "dummy_tag_latest_release-v1.0.0", "dummy_false_commit", "refs/tags/" }

ShaArgs ==
    { "", "master", "release-v1.0.0", "no-such-branch" }
        \cup {tagCommitMap[k] : k \in DOMAIN tagCommitMap}

\* The client answers once the builder has returned, or on a repository it
\* was pointed at.  A query changes nothing but resp and every query runs
\* `git log` afresh, so its response does not depend on earlier queries: the
\* model follows the client up to its first response.
Serving == pc \in {"done", "adopted"} /\ resp = NoResponse

ListMatchingRefs(ref) ==
    /\ Serving
    /\ resp' = ListMatchingRefsResult(ref)
    /\ UNCHANGED <<repoVars, buildVars, gitInstalled>>

ListCommits(sha) ==
    /\ Serving
    /\ resp' = ListCommitsResult(sha)
    /\ UNCHANGED <<repoVars, buildVars, gitInstalled>>

GetRef(ref) ==
    /\ Serving
    /\ resp' = GetRefResult(ref)
    /\ UNCHANGED <<repoVars, buildVars, gitInstalled>>

----------------------------------------------------------------------------
(* The fixture builder: git_fakes.go lines 206-305 *)

Stmt(fn, fileName, tagName, branchName, addDummy) ==
    [fn |-> fn, fileName |-> fileName, tagName |-> tagName,
     branchName |-> branchName, addDummy |-> addDummy]

\* the statements of initializeRepo after repo.Worktree()
initializeRepo ==
    << Stmt("createCommitWithoutTag", "static", "", "master", FALSE),
       Stmt("createCommitWithAnnotatedTag", "tagged_annotated", "v0.0.1", "master", FALSE),
       Stmt("createCommitWithLightweightTag", "tagged_lightweight", "v0.0.2", "master", FALSE),
       Stmt("createCommitWithoutTag", "latest_master", "", "master", TRUE),
       Stmt("createBranch", "", "", "release-v1.0.0", FALSE),
       Stmt("createCommitWithAnnotatedTag", "tagged_annotated_branch", "v1.0.0",
            "release-v1.0.0", FALSE),
       Stmt("createCommitWithLightweightTag", "tagged_lightweight_branch", "v1.0.1",
            "release-v1.0.0", FALSE),
       Stmt("createCommitWithoutTag", "latest_branch", "", "release-v1.0.0", TRUE),
       Stmt("randstr.Hex", "", "dummy_false_commit", "", FALSE) >>

CommitFns ==
    {"createCommitWithoutTag", "createCommitWithAnnotatedTag", "createCommitWithLightweightTag"}
TagFns == {"createCommitWithAnnotatedTag", "createCommitWithLightweightTag"}

FirstPhase(stmt) == IF stmt.fn \in CommitFns THEN "Checkout" ELSE "call"

EmptyMap == [k \in {} |-> ""]

\* m[k] = v of a Go map
Put(m, k, v) == [x \in DOMAIN m \cup {k} |-> IF x = k THEN v ELSE m[x]]

\* a label that leaves the branch name out
fakeDummyTagWithoutBranch(branchName) == "dummy_tag_latest_"

\* the label createCommitWithoutTag records the commit under
fakeDummyTag(branchName) == "dummy_tag_latest_" \o branchName

\* the name a statement records its commit under
RecordedName(stmt) ==
    IF stmt.fn \in TagFns THEN stmt.tagName ELSE fakeDummyTag(stmt.branchName)

\* the commit message of createCommit
CommitMessage(fileName) == "adding file " \o fileName

Cur == initializeRepo[ip]

\* Expect(err).ToNot(HaveOccurred()) fails: the builder stops where it is
Abort ==
    /\ pc' = "aborted"
    /\ UNCHANGED <<ip, phase, repoVars, commitHash, tagCommitMap, mapArg, swallowed,
                   faults, gitInstalled, resp>>

\* the statement has returned
Return ==
    IF ip = Len(initializeRepo)
    THEN /\ pc' = "done"
         /\ UNCHANGED <<ip, phase>>
    ELSE /\ pc' = pc
         /\ ip' = ip + 1
         /\ phase' = FirstPhase(initializeRepo[ip + 1])

\* newLocalGitRepo: git.PlainInit(repoDir, false)
PlainInit ==
    /\ pc = "PlainInit"
    /\ \/ /\ ~repoInit
          /\ repoInit' = TRUE
          /\ head' = NewBranchReferenceName("master")
          /\ pc' = "Worktree"
          /\ UNCHANGED <<ip, phase, commits, refs, clock, worktree, staged, commitHash,
                         tagCommitMap, mapArg, swallowed, faults, gitInstalled, resp>>
       \/ Abort

\* initializeRepo: repo.Worktree()
Worktree ==
    /\ pc = "Worktree"
    /\ \/ /\ pc' = "run"
          /\ ip' = 1
          /\ phase' = FirstPhase(initializeRepo[1])
          /\ UNCHANGED <<repoVars, commitHash, tagCommitMap, mapArg, swallowed, faults,
                         gitInstalled, resp>>
       \/ Abort

\* a Checkout that goes to master whatever branch was asked for
CheckoutTargetMaster(branchName) == NewBranchReferenceName("master")

\* where a successful Checkout leaves HEAD
CheckoutTarget(branchName) == NewBranchReferenceName(branchName)

\* createCommit: w.Checkout(...), whose error is not looked at.  The call
\* fails when the branch does not exist; it can also fail before or after it
\* has moved HEAD.
Checkout ==
    /\ pc = "run" /\ Cur.fn \in CommitFns /\ phase = "Checkout"
    /\ LET branch == CheckoutTarget(Cur.branchName)
           moved == /\ head' = branch
                    /\ worktree' = commits[refs[branch].target].tree
                    /\ staged' = commits[refs[branch].target].tree
           stayed == UNCHANGED <<head, worktree, staged>>
       IN IF branch \notin DOMAIN refs
          THEN /\ stayed
               /\ swallowed' = swallowed \cup {ip}
               /\ UNCHANGED faults
          ELSE \/ /\ moved
                  /\ UNCHANGED <<swallowed, faults>>
               \/ /\ faults < MaxFaults
                  /\ \/ stayed
                     \/ /\ head' = branch
                        /\ UNCHANGED <<worktree, staged>>
                  /\ swallowed' = swallowed \cup {ip}
                  /\ faults' = faults + 1
    /\ phase' = "WriteFile"
    /\ UNCHANGED <<pc, ip, repoInit, commits, refs, clock, commitHash, tagCommitMap,
                   mapArg, gitInstalled, resp>>

\* createCommit: ioutil.WriteFile
WriteFile ==
    /\ pc = "run" /\ phase = "WriteFile"
    /\ \/ /\ worktree' = worktree \cup {Cur.fileName}
          /\ phase' = "Add"
          /\ UNCHANGED <<pc, ip, repoInit, commits, refs, head, clock, staged, commitHash,
                         tagCommitMap, mapArg, swallowed, faults, gitInstalled, resp>>
       \/ Abort

\* createCommit: w.Add(fileName)
Add ==
    /\ pc = "run" /\ phase = "Add"
    /\ \/ /\ Cur.fileName \in worktree
          /\ staged' = staged \cup {Cur.fileName}
          /\ phase' = "Commit"
          /\ UNCHANGED <<pc, ip, repoInit, commits, refs, head, clock, worktree, commitHash,
                         tagCommitMap, mapArg, swallowed, faults, gitInstalled, resp>>
       \/ Abort

\* createCommit: w.Commit(...) at time.Now(); the new commit's parent is the
\* commit HEAD resolves to and the branch HEAD names moves to the new commit
Commit ==
    /\ pc = "run" /\ phase = "Commit"
    /\ \/ \E tick \in {0, 1} :
             LET n == Len(commits) + 1
                 parent == IF head \in DOMAIN refs THEN refs[head].target ELSE 0
             IN /\ clock + tick <= MaxTicks
                /\ clock' = clock + tick
                /\ commits' = Append(commits,
                                 [hash |-> HashString(n), parent |-> parent,
                                  subject |-> CommitMessage(Cur.fileName),
                                  when |-> clock', tree |-> staged])
                /\ refs' = Put(refs, head, [kind |-> "branch", target |-> n])
                /\ commitHash' = HashString(n)
                /\ IF Cur.fn \in TagFns
                   THEN /\ phase' = "CreateTag"
                        /\ UNCHANGED <<pc, ip>>
                   ELSE IF Cur.addDummy
                   THEN /\ phase' = "Record"
                        /\ UNCHANGED <<pc, ip>>
                   ELSE Return
                /\ UNCHANGED <<repoInit, head, worktree, staged, tagCommitMap, mapArg,
                               swallowed, faults, gitInstalled, resp>>
       \/ Abort

\* createCommitWith*Tag: repo.CreateTag(tagName, commitHash, ...)
CreateTag ==
    /\ pc = "run" /\ phase = "CreateTag"
    /\ \/ /\ NewTagReferenceName(Cur.tagName) \notin DOMAIN refs
          /\ refs' = Put(refs, NewTagReferenceName(Cur.tagName),
                         [kind |-> IF Cur.fn = "createCommitWithAnnotatedTag"
                                   THEN "annotated" ELSE "lightweight",
                          target |-> CHOOSE c \in DOMAIN commits :
                                        commits[c].hash = commitHash])
          /\ phase' = "Record"
          /\ UNCHANGED <<pc, ip, repoInit, commits, head, clock, worktree, staged,
                         commitHash, tagCommitMap, mapArg, swallowed, faults,
                         gitInstalled, resp>>
       \/ Abort

\* tagCommitMap[name] = commitHash.String()
Record ==
    /\ pc = "run" /\ phase = "Record"
    /\ tagCommitMap' = Put(tagCommitMap, RecordedName(Cur), commitHash)
    /\ Return
    /\ UNCHANGED <<repoVars, commitHash, mapArg, swallowed, faults, gitInstalled, resp>>

\* createBranch: a branch ref at the commit repo.Head() resolves to
createBranch ==
    /\ pc = "run" /\ Cur.fn = "createBranch" /\ phase = "call"
    /\ \/ /\ head \in DOMAIN refs
          /\ refs' = Put(refs, NewBranchReferenceName(Cur.branchName),
                         [kind |-> "branch", target |-> refs[head].target])
          /\ Return
          /\ UNCHANGED <<repoInit, commits, head, clock, worktree, staged, commitHash,
                         tagCommitMap, mapArg, swallowed, faults, gitInstalled, resp>>
       \/ Abort

\* tagCommitMap["dummy_false_commit"] = randstr.Hex(40)
AddFalseCommit ==
    /\ pc = "run" /\ Cur.fn = "randstr.Hex" /\ phase = "call"
    /\ \E d \in RandDigits :
          tagCommitMap' = Put(tagCommitMap, Cur.tagName, RandHex(RandBytes, d))
    /\ Return
    /\ UNCHANGED <<repoVars, commitHash, mapArg, swallowed, faults, gitInstalled, resp>>

----------------------------------------------------------------------------
(* Initial states *)

\* a map the caller may pass to the builder
CallerMaps == {EmptyMap, [k \in {"stale"} |-> HashString(9)]}

\* the builder is about to run on a directory that holds no repository
InitBuild ==
    /\ pc = "PlainInit"
    /\ ip = 0
    /\ phase = "call"
    /\ repoInit = FALSE
    /\ commits = <<>>
    /\ refs = EmptyMap
    /\ head = ""
    /\ clock = 0
    /\ worktree = {}
    /\ staged = {}
    /\ commitHash = ""
    /\ mapArg \in CallerMaps
    /\ tagCommitMap = mapArg
    /\ swallowed = {}
    /\ faults = 0

\* ref names of the repositories the client is pointed at directly
AdoptedRefs ==
    {"refs/heads/master", "refs/heads/release-v1.0.0", "refs/tags/v1.0.0", "refs/tags/v1.0.1"}

\* newFakeGithubApi(repoDir) on a repository somebody else made: a chain of
\* up to MaxCommits commits, any of the refs at any of them and one at the
\* newest, commit dates a second apart or all in one second, at most one
\* commit message with a double quote in it
InitAdopted ==
    /\ pc = "adopted"
    /\ ip = 0
    /\ phase = "call"
    /\ repoInit = TRUE
    /\ \E n \in 0..MaxCommits, quoted \in 0..MaxCommits, sameSecond \in BOOLEAN :
          /\ quoted <= n
          /\ n <= 1 => sameSecond
          /\ commits = [i \in 1..n |->
                           [hash |-> HashString(i), parent |-> i - 1,
                            subject |-> IF i = quoted THEN "say \"hi\"" ELSE "fix",
                            when |-> IF sameSecond THEN 1 ELSE i, tree |-> {}]]
          /\ \E names \in SUBSET AdoptedRefs :
                /\ \E at \in [names -> 1..n] :
                      refs = [name \in names |->
                                 [kind |-> IF IsTagRef(name) THEN "lightweight" ELSE "branch",
                                  target |-> at[name]]]
                /\ n > 0 => \E name \in names : refs[name].target = n
    /\ head = NewBranchReferenceName("master")
    /\ clock = 0
    /\ worktree = {}
    /\ staged = {}
    /\ commitHash = ""
    /\ mapArg = EmptyMap
    /\ tagCommitMap = mapArg
    /\ swallowed = {}
    /\ faults = 0

Init ==
    /\ InitBuild \/ InitAdopted
    /\ gitInstalled \in BOOLEAN
    /\ resp = NoResponse

Next ==
    \/ PlainInit
    \/ Worktree
    \/ Checkout
    \/ WriteFile
    \/ Add
    \/ Commit
    \/ CreateTag
    \/ Record
    \/ createBranch
    \/ AddFalseCommit
    \/ \E ref \in RefArgs : ListMatchingRefs(ref)
    \/ \E sha \in ShaArgs : ListCommits(sha)
    \/ \E ref \in RefArgs : GetRef(ref)

Spec == Init /\ [][Next]_vars

----------------------------------------------------------------------------
(* Properties *)

\* the builder has returned and no Checkout failed but the first one, which
\* asks for master before the first commit has made it
Built == pc = "done" /\ swallowed = {1}

\* the hash of the commit that added a file
HashOfFile(fileName) ==
    commits[CHOOSE c \in DOMAIN commits :
               commits[c].subject = CommitMessage(fileName)].hash

TipHash(branchName) == commits[refs[NewBranchReferenceName(branchName)].target].hash

CommitHashes == {commits[c].hash : c \in DOMAIN commits}

TagNames == {"v0.0.1", "v0.0.2", "v1.0.0", "v1.0.1"}
LabelNames == {"dummy_tag_latest_master", "dummy_tag_latest_release-v1.0.0"}

\* the revision the last query passed to git log
RevOf(r) == IF r.op = "ListCommits" THEN r.arg ELSE ""

\* C1 (as claimed): after a successful build, ListMatchingRefs with any of
\* the six recorded names as filter returns exactly one reference, whose hash
\* is the map's value for the name.
C1_OneRefPerRecordedName ==
    (Built /\ gitInstalled /\ resp.op = "ListMatchingRefs"
        /\ resp.arg \in TagNames \cup LabelNames)
    => /\ resp.kind = "ok"
       /\ Len(resp.refs) = 1
       /\ resp.refs[1].SHA = tagCommitMap[resp.arg]

\* C1 (amended): after a successful build, ListMatchingRefs returns exactly
\* one reference, with the map's hash, for v0.0.1, v0.0.2 and v1.0.1; for
\* v1.0.0 it returns two, the tip of release-v1.0.0 and then the commit tagged
\* v1.0.0; for the two dummy_tag_latest labels it returns an empty list.
C1_RefsPerRecordedName ==
    (Built /\ gitInstalled /\ resp.op = "ListMatchingRefs")
    => /\ resp.arg \in TagNames \cup LabelNames => resp.kind = "ok"
       /\ resp.arg \in {"v0.0.1", "v0.0.2", "v1.0.1"}
            => /\ Len(resp.refs) = 1
               /\ resp.refs[1].SHA = tagCommitMap[resp.arg]
       /\ resp.arg = "v1.0.0"
            => /\ Len(resp.refs) = 2
               /\ resp.refs[1].SHA = tagCommitMap["dummy_tag_latest_release-v1.0.0"]
               /\ resp.refs[1].Ref = "refs/heads/release-v1.0.0"
               /\ resp.refs[2].SHA = tagCommitMap["v1.0.0"]
               /\ resp.refs[2].Ref = "refs/tags/v1.0.0"
       /\ resp.arg \in LabelNames => resp.refs = <<>>

C1_Witness ==
    /\ Built /\ gitInstalled
    /\ resp.op = "ListMatchingRefs" /\ resp.arg = "v1.0.0" /\ Len(resp.refs) = 2

\* C2 (as claimed): after a successful build, GetRef of every key of the map
\* but dummy_false_commit succeeds with the map's hash for that key.
C2_GetRefRoundTrip ==
    (Built /\ gitInstalled /\ resp.op = "GetRef"
        /\ resp.arg \in DOMAIN tagCommitMap \ {"dummy_false_commit"})
    => /\ resp.kind = "ok"
       /\ resp.refs[1].SHA = tagCommitMap[resp.arg]

\* C2 (amended): after a successful build, GetRef succeeds with the map's
\* hash for v0.0.1, v0.0.2 and v1.0.1; GetRef of v1.0.0 succeeds with the hash
\* of the tip of release-v1.0.0, the first record whose decoration contains
\* "v1.0.0"; GetRef of the two dummy_tag_latest labels fails with not-found.
C2_GetRefPerKey ==
    (Built /\ gitInstalled /\ resp.op = "GetRef")
    => /\ resp.arg \in {"v0.0.1", "v0.0.2", "v1.0.1"}
            => /\ resp.kind = "ok"
               /\ resp.refs[1].SHA = tagCommitMap[resp.arg]
       /\ resp.arg = "v1.0.0"
            => /\ resp.kind = "ok"
               /\ resp.refs[1].SHA = tagCommitMap["dummy_tag_latest_release-v1.0.0"]
               /\ resp.refs[1].SHA # tagCommitMap["v1.0.0"]
       /\ resp.arg \in LabelNames => resp.kind = "notFound"

C2_Witness ==
    /\ Built /\ gitInstalled
    /\ resp.op = "GetRef" /\ resp.arg = "v1.0.0" /\ resp.kind = "ok"

\* C3: after a successful build, ListCommits("master") is the four commits
\* made on master, newest first, ListCommits("release-v1.0.0") is the three
\* commits made on the branch followed by those four, and master still ends
\* at latest_master once release-v1.0.0 exists.
C3_FirstParentChains ==
    /\ (Built /\ gitInstalled /\ resp.op = "ListCommits" /\ resp.arg = "master")
         => /\ resp.kind = "ok"
            /\ resp.commits = << HashOfFile("latest_master"), HashOfFile("tagged_lightweight"),
                                 HashOfFile("tagged_annotated"), HashOfFile("static") >>
    /\ (Built /\ gitInstalled /\ resp.op = "ListCommits" /\ resp.arg = "release-v1.0.0")
         => /\ resp.kind = "ok"
            /\ resp.commits = << HashOfFile("latest_branch"),
                                 HashOfFile("tagged_lightweight_branch"),
                                 HashOfFile("tagged_annotated_branch"),
                                 HashOfFile("latest_master"), HashOfFile("tagged_lightweight"),
                                 HashOfFile("tagged_annotated"), HashOfFile("static") >>
    /\ (pc \in {"run", "done"} /\ swallowed = {1}
          /\ NewBranchReferenceName("release-v1.0.0") \in DOMAIN refs)
         => TipHash("master") = HashOfFile("latest_master")

C3_Witness ==
    /\ Built /\ gitInstalled
    /\ resp.op = "ListCommits" /\ resp.arg = "release-v1.0.0" /\ Len(resp.commits) = 7

\* C4 (as claimed): no reference name a query returns holds a "tag: " or
\* "HEAD -> " prefix, stripping a returned name again changes nothing, and a
\* decoration that names two refs is not returned as one name.
C4_StrippedNames ==
    \A i \in DOMAIN resp.refs :
        LET name == resp.refs[i].Ref
        IN /\ ~Contains(name, "tag: ")
           /\ ~Contains(name, "HEAD -> ")
           /\ getNewMockReference([Commit |-> resp.refs[i].SHA, Refs |-> name]).Ref = name
           /\ ~Contains(name, ", ")

\* a step of the build has failed
StepFailed == pc = "aborted" \/ swallowed # {}

\* C5 (as claimed): once a step of the build has failed, no later step runs
\* and no commit, ref or map entry is created.
C5_FailFast ==
    [][StepFailed => UNCHANGED <<pc, ip, phase, commits, refs, tagCommitMap>>]_vars

\* C6 (as claimed): a query whose log command succeeded with output that is
\* not a JSON array returns an error.
C6_UnparseableIsError ==
    (resp.op # "none"
        /\ gitCommand(GitLog(RevOf(resp))).outcome = "ok"
        /\ ~JsonValid(gitCommand(GitLog(RevOf(resp))).logOut))
    => resp.kind = "error"

\* C7: a query whose log command fails returns an error and no result;
\* ListCommits of a branch or hash the repository does not have, such as the
\* dummy_false_commit hash, returns an error.
C7_FailedLogIsError ==
    /\ (resp.op # "none" /\ GitLog(RevOf(resp)).status = "fail")
         => resp.kind = "error" /\ resp.refs = <<>> /\ resp.commits = <<>>
    /\ (resp.op = "ListCommits" /\ resp.arg # "" /\ Resolve(resp.arg) = 0)
         => resp.kind = "error" /\ resp.commits = <<>>
    /\ (pc = "done" /\ resp.op = "ListCommits"
          /\ resp.arg = tagCommitMap["dummy_false_commit"])
         => resp.kind = "error"

C7_Witness ==
    /\ pc = "done" /\ gitInstalled
    /\ resp.op = "ListCommits" /\ resp.arg = tagCommitMap["dummy_false_commit"]
    /\ resp.kind = "error"

\* what GetRef and ListMatchingRefs return for one ref name
Agree(got, list) ==
    /\ list.kind = "ok" /\ list.refs # <<>>
         => got.kind = "ok" /\ got.refs = <<list.refs[1]>>
    /\ list.kind = "ok" => (list.refs = <<>> <=> got.kind = "notFound")
    /\ list.kind # "ok" => got.kind = list.kind

\* C8: GetRef returns the first reference ListMatchingRefs returns for the
\* same name, fails with not-found exactly when that list is empty, and fails
\* with not-found for dummy_false_commit on the built fixture.
C8_GetRefIsFirstMatch ==
    /\ resp.op = "GetRef" => Agree(resp, ListMatchingRefsResult(resp.arg))
    /\ resp.op = "ListMatchingRefs" => Agree(GetRefResult(resp.arg), resp)
    /\ (pc = "done" /\ gitInstalled /\ resp.op = "GetRef"
          /\ resp.arg = "dummy_false_commit")
         => resp.kind = "notFound"

C8_Witness ==
    /\ resp.op = "GetRef" /\ resp.kind = "ok"
    /\ Len(ListMatchingRefsResult(resp.arg).refs) >= 2
    /\ ListMatchingRefsResult(resp.arg).refs[1] # ListMatchingRefsResult(resp.arg).refs[2]

\* C9: a build that completes on an empty map leaves exactly seven keys; the
\* four tags hold the hashes of the commits they were put on, the two labels
\* the tips of master and release-v1.0.0, the six hashes differ, and the
\* dummy_false_commit value is no commit's hash.
C9_MapAfterBuild ==
    (pc = "done" /\ mapArg = EmptyMap)
    => /\ DOMAIN tagCommitMap = TagNames \cup LabelNames \cup {"dummy_false_commit"}
       /\ tagCommitMap["v0.0.1"] = HashOfFile("tagged_annotated")
       /\ tagCommitMap["v0.0.2"] = HashOfFile("tagged_lightweight")
       /\ tagCommitMap["v1.0.0"] = HashOfFile("tagged_annotated_branch")
       /\ tagCommitMap["v1.0.1"] = HashOfFile("tagged_lightweight_branch")
       /\ tagCommitMap["dummy_tag_latest_master"] = HashOfFile("latest_master")
       /\ tagCommitMap["dummy_tag_latest_release-v1.0.0"] = HashOfFile("latest_branch")
       /\ swallowed = {1}
            => /\ tagCommitMap["dummy_tag_latest_master"] = TipHash("master")
               /\ tagCommitMap["dummy_tag_latest_release-v1.0.0"] = TipHash("release-v1.0.0")
       /\ \A a, b \in TagNames \cup LabelNames :
             a # b => tagCommitMap[a] # tagCommitMap[b]
       /\ tagCommitMap["dummy_false_commit"] \notin CommitHashes

C9_Witness ==
    /\ Built /\ mapArg = EmptyMap
    /\ Cardinality(DOMAIN tagCommitMap) = 7

\* C10 (as claimed): ListMatchingRefs returns an empty list and no error
\* whenever the log command succeeds and no decoration contains the filter,
\* also when the output is empty, and no query ends in a panic.
C10_NoMatchIsEmpty ==
    /\ (resp.op = "ListMatchingRefs" /\ GitLog("").status = "ok"
          /\ \A i \in DOMAIN GitLog("").entries :
                ~Contains(GitLog("").entries[i].refs, resp.arg))
         => resp.kind = "ok" /\ resp.refs = <<>>
    /\ resp.kind # "panic"

====
